---------------------------- MODULE Spec2Model ----------------------------
(***************************************************************************)
(* Element addressing and snapshot cache of agent_browser_mcp:             *)
(* RefCacheManager (src/src/utils/ref-cache.ts), the ref resolver          *)
(* (utils/ref-resolver.ts, src/unnamed/part_016) and the tool handlers     *)
(* that use them (snapshot, click, navigate, reload).                      *)
(*                                                                         *)
(* A string is a sequence of one-character strings, so that parsing,       *)
(* formatting and sorting of ref ids are computed, not assumed.            *)
(* A RefMap (a JavaScript object with non-integer string keys) is a        *)
(* sequence of [key, data] entries in insertion order, which is the order  *)
(* Object.keys reports.                                                    *)
(***************************************************************************)
EXTENDS Integers, Sequences, FiniteSets, TLC

VARIABLES
    refs,       \* RefCacheManager.refs
    version,    \* RefCacheManager.version
    page,       \* the document the browser page currently shows
    pc,         \* position of the browser_snapshot handler
    snapPage,   \* the document the snapshot call in flight was queried from
    building,   \* the ref table the snapshot call in flight has built so far
    op,         \* name of the operation that made the last step
    reply,      \* outcome of the last completed tool call or resolver call
    gen,        \* history: last cache write, the table it was given, the one before
    navigated   \* history: a navigate/reload returned and no snapshot was published since

VARIABLES
    dom,        \* the elements of the document, in DOM order (locator specification)
    hits,       \* the elements of dom the locator of the last resolve matches
    acted,      \* the locator the last step performed an element action on, if any
    shot        \* history: the document and options of the last atomic snapshot

VARIABLES
    isProfiling,        \* profiler.ts: isProfiling
    profileSessionId,   \* profiler.ts: profileSessionId; 0 is null
    profileDataChunks,  \* profiler.ts: number of chunks in profileDataChunks
    cdp,                \* the CDP session: the browser's trace and the listeners on it
    calls               \* the browser_profiler calls: action, position, reply

VARIABLES
    startPc,            \* position of AgentBrowserMCPServer.start()
    toolHandlers,       \* server.__toolHandlers: <<>> is undefined
    inbox,              \* requests the client has written that are not handled yet
    responses           \* the responses to the tool calls handled so far

cacheVars == <<refs, version, page, pc, snapPage, building, op, reply, gen, navigated,
               dom, hits, acted, shot>>

profilerVars == <<isProfiling, profileSessionId, profileDataChunks, cdp, calls>>

serverVars == <<startPc, toolHandlers, inbox, responses>>

vars == <<cacheVars, profilerVars, serverVars>>

----------------------------------------------------------------------------
(* Bounds *)

MaxRefs == 12       \* largest number of elements a page exposes to a snapshot
MaxVersion == 2     \* snapshots published before the model stops publishing
MaxTokLen == 3      \* length of the systematically enumerated ref tokens
MaxCalls == 3       \* browser_profiler calls of a run
MaxChunks == 2      \* trace chunks collected before the model stops collecting
MaxRequests == 3    \* tool call requests a client sends in a run

----------------------------------------------------------------------------
(* The profiler module and the server before their first call *)

CallIds == 1..MaxCalls

NoCall ==
    [action |-> "none", pc |-> "new", ok |-> FALSE, reply |-> "", sessionId |-> 0,
     chunks |-> 0, during |-> FALSE]

\* profiler.ts as loaded, and a CDP session no trace runs on
ProfilerInit ==
    /\ isProfiling = FALSE
    /\ profileSessionId = 0
    /\ profileDataChunks = 0
    /\ cdp = [tracing |-> FALSE, listeners |-> 0, stored |-> FALSE]
    /\ calls = [id \in CallIds |-> NoCall]

\* the server as constructed: request handlers set, not connected, no tools
ServerInit ==
    /\ startPc = "new"
    /\ toolHandlers = <<>>
    /\ inbox = <<>>
    /\ responses = <<>>

----------------------------------------------------------------------------
(* Strings *)

\* null and undefined: an optional value is <<>> or <<value>>
Null == <<>>

DigitChars == {"0", "1", "2", "3", "4", "5", "6", "7", "8", "9"}

\* UTF-16 code unit of a character, the order Array.prototype.sort compares by
CharCode(c) ==
    CASE c = "0" -> 48 [] c = "1" -> 49 [] c = "2" -> 50 [] c = "3" -> 51
      [] c = "4" -> 52 [] c = "5" -> 53 [] c = "6" -> 54 [] c = "7" -> 55
      [] c = "8" -> 56 [] c = "9" -> 57 [] c = "@" -> 64 [] c = "e" -> 101
      [] c = "f" -> 102 [] c = "r" -> 114

DigitChar(d) ==
    CASE d = 0 -> "0" [] d = 1 -> "1" [] d = 2 -> "2" [] d = 3 -> "3"
      [] d = 4 -> "4" [] d = 5 -> "5" [] d = 6 -> "6" [] d = 7 -> "7"
      [] d = 8 -> "8" [] d = 9 -> "9"

\* decimal formatting of a positive integer, as a template literal does it
RECURSIVE Digits(_)
Digits(i) ==
    IF i < 10 THEN <<DigitChar(i)>>
    ELSE Digits(i \div 10) \o <<DigitChar(i % 10)>>

\* s < t as JavaScript compares strings (code unit by code unit, prefix first)
RECURSIVE StrLess(_, _)
StrLess(s, t) ==
    IF Len(t) = 0 THEN FALSE
    ELSE IF Len(s) = 0 THEN TRUE
    ELSE IF s[1] # t[1] THEN CharCode(s[1]) < CharCode(t[1])
    ELSE StrLess(Tail(s), Tail(t))

\* insert a string into a sorted sequence of strings
RECURSIVE SortInsert(_, _)
SortInsert(x, sorted) ==
    IF Len(sorted) = 0 THEN <<x>>
    ELSE IF StrLess(x, sorted[1]) THEN <<x>> \o sorted
    ELSE <<sorted[1]>> \o SortInsert(x, Tail(sorted))

\* Array.prototype.sort() with the default comparator
RECURSIVE Sort(_)
Sort(strs) ==
    IF Len(strs) = 0 THEN <<>>
    ELSE SortInsert(strs[1], Sort(Tail(strs)))

\* Array.prototype.slice(0, n)
Slice(s, n) == SubSeq(s, 1, IF Len(s) < n THEN Len(s) ELSE n)


----------------------------------------------------------------------------
(* Pages and the ref table a snapshot of a page yields *)

MaxPage == 2        \* largest page the tool-level specification navigates to

Variants == {1, 2}

\* documents the browser can show: n elements surfaced by a snapshot, two
\* contents per non-zero size so that tables of equal size can differ in content
Pages(maxN) == {p \in [n : 0..maxN, v : Variants] : p.n = 0 => p.v = 1}

ElemRole(p, i) == IF i % 3 = 0 THEN "link" ELSE "button"

ElemName(p, i) ==
    IF p.v = 1 THEN <<"S", "a", "v", "e">> ELSE <<"O", "p", "e", "n">>

\* elements of page p that share role and name with element i, among 1..k
Twins(p, i, k) ==
    {j \in 1..k :
        ElemRole(p, j) = ElemRole(p, i) /\ ElemName(p, j) = ElemName(p, i)}

\* nth: the ordinal among the earlier twins, present only when there are twins
ElemNth(p, i) ==
    IF Cardinality(Twins(p, i, p.n)) > 1
    THEN <<Cardinality(Twins(p, i, i - 1))>>
    ELSE <<>>

\* RefData of the i-th surfaced element
Descriptor(p, i) ==
    [selector |-> <<"getByRole", ElemRole(p, i), ElemName(p, i)>>,
     role |-> ElemRole(p, i),
     name |-> <<ElemName(p, i)>>,
     nth |-> ElemNth(p, i)]

\* ref id of the i-th surfaced element: "e" followed by the counter
RefKey(i) == <<"e">> \o Digits(i)

\* the table after the first k elements of page p have been assigned refs
TablePrefix(p, k) == [i \in 1..k |-> [key |-> RefKey(i), data |-> Descriptor(p, i)]]

\* the complete table of a snapshot of page p
Table(p) == TablePrefix(p, p.n)

EmptyMap == <<>>

\* Object.keys(map)
Keys(map) == [i \in 1..Len(map) |-> map[i].key]

\* key in map
HasKey(map, key) == \E i \in 1..Len(map) : map[i].key = key

\* map[key]: <<data>> when the key is present, <<>> for undefined
Prop(map, key) ==
    IF HasKey(map, key)
    THEN <<(CHOOSE e \in {map[i] : i \in 1..Len(map)} : e.key = key).data>>
    ELSE <<>>

----------------------------------------------------------------------------
(* RefCacheManager *)

\* a write that folds the new table into the old one instead of replacing it
UpdateRefs_Merge(table) ==
    /\ refs' = table \o SelectSeq(refs,
                 LAMBDA e : ~\E i \in 1..Len(table) : table[i].key = e.key)
    /\ version' = version + 1

\* a write that counts the snapshot but keeps serving the old table
UpdateRefs_KeepsOld(table) ==
    /\ refs' = refs
    /\ version' = version + 1

\* a write that swaps the table without counting it
UpdateRefs_NoCount(table) ==
    /\ refs' = table
    /\ version' = version

UpdateRefs(table) ==
    /\ refs' = table
    /\ version' = version + 1

Get(refId) ==
    IF Prop(refs, refId) # <<>> THEN Prop(refs, refId) ELSE Null

IsValid(refId) == HasKey(refs, refId)

GetAvailable == Keys(refs)

GetVersion == version

\* a clear that resets the counter and leaves the table in place
Invalidate_KeepsTable ==
    /\ refs' = refs
    /\ version' = 0

Invalidate ==
    /\ refs' = EmptyMap
    /\ version' = 0

\* { ...this.refs }: a shallow copy, same keys in the same order
GetRefMap == refs

----------------------------------------------------------------------------
(* Ref resolver *)

\* a parser that returns the whole match, "@" included
ParseRef_KeepsAt(ref) ==
    LET body == IF Len(ref) > 0 /\ ref[1] = "@" THEN Tail(ref) ELSE ref
    IN  IF /\ Len(body) >= 2
           /\ body[1] = "e"
           /\ \A i \in 2..Len(body) : body[i] \in DigitChars
        THEN <<ref>>
        ELSE Null

\* a parser whose pattern is ^@?(e\d*)$: the digits became optional
ParseRef_NoDigits(ref) ==
    LET body == IF Len(ref) > 0 /\ ref[1] = "@" THEN Tail(ref) ELSE ref
    IN  IF /\ Len(body) >= 1
           /\ body[1] = "e"
           /\ \A i \in 2..Len(body) : body[i] \in DigitChars
        THEN <<body>>
        ELSE Null

\* ref.match(/^@?(e\d+)$/): the captured group, or null
ParseRef(ref) ==
    LET body == IF Len(ref) > 0 /\ ref[1] = "@" THEN Tail(ref) ELSE ref
    IN  IF /\ Len(body) >= 2
           /\ body[1] = "e"
           /\ \A i \in 2..Len(body) : body[i] \in DigitChars
        THEN <<body>>
        ELSE Null

\* a locator that knows only the "clickable" sentinel
LocatorFromRef_ClickableOnly(refData) ==
    IF refData.role = "clickable"
    THEN [by |-> "selector", selector |-> refData.selector,
          role |-> "", hasText |-> <<>>, nth |-> <<>>]
    ELSE [by |-> "role", selector |-> <<>>,
          role |-> refData.role,
          hasText |-> IF refData.name # <<>> /\ refData.name # <<<<>>>>
                      THEN refData.name ELSE <<>>,
          nth |-> refData.nth]

\* locatorFromRef: the page query the locator stands for
LocatorFromRef(refData) ==
    IF refData.role = "clickable" \/ refData.role = "focusable"
    THEN [by |-> "selector", selector |-> refData.selector,
          role |-> "", hasText |-> <<>>, nth |-> <<>>]
    ELSE [by |-> "role", selector |-> <<>>,
          role |-> refData.role,
          hasText |-> IF refData.name # <<>> /\ refData.name # <<<<>>>>
                      THEN refData.name ELSE <<>>,
          nth |-> refData.nth]

NoLocator ==
    [by |-> "none", selector |-> <<>>, role |-> "", hasText |-> <<>>, nth |-> <<>>]

\* a not-found message that lists every key, however many there are
NotFoundError_NoTruncate(ref, refMap) ==
    LET available == Sort(Keys(refMap))
    IN  [kind |-> "RefNotFound", ref |-> ref, lookedUp |-> TRUE,
         listed |-> available,
         ellipsis |-> FALSE,
         locator |-> NoLocator]

\* the error thrown when the parsed ref is not a key of refMap
NotFoundError(ref, refMap) ==
    LET available == Sort(Keys(refMap))
    IN  [kind |-> "RefNotFound", ref |-> ref, lookedUp |-> TRUE,
         listed |-> Slice(available, 10),
         ellipsis |-> Len(available) > 10,
         locator |-> NoLocator]

\* a format check that reports the empty token as a missing argument
FormatError_Required(ref) ==
    [kind |-> IF ref = <<>> THEN "RefRequired" ELSE "InvalidRefFormat",
     ref |-> ref, lookedUp |-> FALSE,
     listed |-> <<>>, ellipsis |-> FALSE, locator |-> NoLocator]

\* the error thrown when the token does not parse; the table is not read
FormatError(ref) ==
    [kind |-> "InvalidRefFormat", ref |-> ref, lookedUp |-> FALSE,
     listed |-> <<>>, ellipsis |-> FALSE, locator |-> NoLocator]

\* resolveRef(page, ref, refMap): a locator, or the error it throws
ResolveRef(ref, refMap) ==
    LET refId == ParseRef(ref)
    IN  IF refId = Null THEN FormatError(ref)
        ELSE LET refData == Prop(refMap, refId[1])
             IN  IF refData = <<>> THEN NotFoundError(ref, refMap)
                 ELSE [kind |-> "Locator", ref |-> ref, lookedUp |-> TRUE,
                       listed |-> <<>>, ellipsis |-> FALSE,
                       locator |-> LocatorFromRef(refData[1])]

----------------------------------------------------------------------------
(* Inputs *)

TokChars == {"@", "e", "0", "1"}

\* every string over chars of length at most n
StringsUpTo(chars, n) == UNION {[1..k -> chars] : k \in 0..n}

\* tokens named by the documentation and the tests, and refs around ten
ExampleTokens ==
    {<<"r", "e", "f", "1">>, <<"@", "1">>, <<>>, <<"e">>,
     <<"e", "1">>, <<"@", "e", "1">>, <<"e", "2">>, <<"@", "e", "2">>,
     <<"e", "9">>, <<"e", "1", "2">>, <<"@", "e", "1", "2">>,
     <<"e", "1", "3">>, <<"@", "e", "1", "3">>, <<"e", "9", "9">>}

Tokens == StringsUpTo(TokChars, MaxTokLen) \cup ExampleTokens

\* the refs a client passes to the interaction tools
ToolTokens ==
    {<<"e", "1">>, <<"@", "e", "2">>, <<"e", "9">>, <<"@", "1">>}

----------------------------------------------------------------------------
(* State machine of the tool handlers *)

BlankPage == [n |-> 0, v |-> 1]

NoResult == FormatError(<<>>)

NoReply ==
    [tool |-> "none", isError |-> FALSE, error |-> "", ref |-> <<>>,
     res |-> NoResult, partial |-> FALSE, nrefs |-> 0, refCount |-> 0,
     fields |-> {}, toRef |-> <<>>]

\* the properties of the object handleSnapshot returns
SnapshotFields == {"tree", "refs", "url", "title", "refCount"}

\* the table a reader is entitled to: that of the last completed write
CurrentTable == IF gen.op = "updateRefs" THEN gen.table ELSE EmptyMap

Init ==
    /\ refs = EmptyMap
    /\ version = 0
    /\ page = BlankPage
    /\ pc = "idle"
    /\ snapPage = BlankPage
    /\ building = EmptyMap
    /\ op = "init"
    /\ reply = NoReply
    /\ gen = [op |-> "init", table |-> EmptyMap, prev |-> EmptyMap]
    /\ navigated = FALSE
    /\ dom = <<>>
    /\ hits = <<>>
    /\ acted = <<>>
    /\ shot = [dom |-> <<>>, cursor |-> FALSE, interactive |-> FALSE]
    /\ ProfilerInit
    /\ ServerInit

\* handleSnapshot up to its first await: getSnapshot(options) queries the tree
SnapshotStart ==
    /\ pc = "idle"
    /\ pc' = "building"
    /\ snapPage' = page
    /\ building' = EmptyMap
    /\ op' = "snapshotStart"
    /\ acted' = <<>>
    /\ UNCHANGED <<dom, hits, shot>>
    /\ UNCHANGED <<refs, version, page, reply, gen, navigated>>
    /\ UNCHANGED <<profilerVars, serverVars>>

\* the builder assigns the next ref in pre-order
BuildStep ==
    /\ pc = "building"
    /\ Len(building) < snapPage.n
    /\ building' = TablePrefix(snapPage, Len(building) + 1)
    /\ op' = "buildStep"
    /\ acted' = <<>>
    /\ UNCHANGED <<dom, hits, shot>>
    /\ UNCHANGED <<refs, version, page, pc, snapPage, reply, gen, navigated>>
    /\ UNCHANGED <<profilerVars, serverVars>>

\* a failing snapshot that also clears the cache on its way out
SnapshotFail_Clears(err) ==
    /\ pc = "building"
    /\ err = "ScopeNotFound" => Len(building) = 0
    /\ pc' = "idle"
    /\ refs' = EmptyMap
    /\ version' = 0
    /\ reply' = [NoReply EXCEPT !.tool = "snapshot", !.isError = TRUE, !.error = err,
                                !.nrefs = Len(building)]
    /\ snapPage' = BlankPage
    /\ building' = EmptyMap
    /\ op' = "snapshotFail"
    /\ acted' = <<>>
    /\ UNCHANGED <<dom, hits, shot>>
    /\ UNCHANGED <<page, gen, navigated>>
    /\ UNCHANGED <<profilerVars, serverVars>>

\* getSnapshot rejects (scope matched nothing, or the driver gave up half way);
\* handleSnapshot has no catch: the rejection passes through to the dispatcher
SnapshotFail(err) ==
    /\ pc = "building"
    /\ err = "ScopeNotFound" => Len(building) = 0
    /\ pc' = "idle"
    /\ reply' = [NoReply EXCEPT !.tool = "snapshot", !.isError = TRUE, !.error = err,
                                !.nrefs = Len(building)]
    /\ snapPage' = BlankPage
    /\ building' = EmptyMap
    /\ op' = "snapshotFail"
    /\ acted' = <<>>
    /\ UNCHANGED <<dom, hits, shot>>
    /\ UNCHANGED <<refs, version, page, gen, navigated>>
    /\ UNCHANGED <<profilerVars, serverVars>>

\* the build is complete: getSnapshot hands the table to the cache and resolves
SnapshotPublish ==
    /\ pc = "building"
    /\ Len(building) = snapPage.n
    /\ version < MaxVersion
    /\ UpdateRefs(building)
    /\ pc' = "title"
    /\ gen' = [op |-> "updateRefs", table |-> Table(snapPage), prev |-> gen.table]
    /\ navigated' = FALSE
    /\ op' = "publish"
    /\ acted' = <<>>
    /\ UNCHANGED <<dom, hits, shot>>
    /\ UNCHANGED <<page, snapPage, building, reply>>
    /\ UNCHANGED <<profilerVars, serverVars>>

\* a return that also reports the cache version
SnapshotReturn_WithVersion ==
    /\ pc = "title"
    /\ pc' = "idle"
    /\ reply' = [NoReply EXCEPT !.tool = "snapshot", !.nrefs = Len(building),
                                !.refCount = Len(GetRefMap),
                                !.fields = SnapshotFields \cup {"version"}]
    /\ snapPage' = BlankPage
    /\ building' = EmptyMap
    /\ op' = "snapshotReturn"
    /\ acted' = <<>>
    /\ UNCHANGED <<dom, hits, shot>>
    /\ UNCHANGED <<refs, version, page, gen, navigated>>
    /\ UNCHANGED <<profilerVars, serverVars>>

\* handleSnapshot after page.title() resolved: count the cached refs and return
SnapshotReturn ==
    /\ pc = "title"
    /\ pc' = "idle"
    /\ reply' = [NoReply EXCEPT !.tool = "snapshot", !.nrefs = Len(building),
                                !.refCount = Len(GetRefMap),
                                !.fields = SnapshotFields]
    /\ snapPage' = BlankPage
    /\ building' = EmptyMap
    /\ op' = "snapshotReturn"
    /\ acted' = <<>>
    /\ UNCHANGED <<dom, hits, shot>>
    /\ UNCHANGED <<refs, version, page, gen, navigated>>
    /\ UNCHANGED <<profilerVars, serverVars>>

\* a click that gives up the page when the ref does not resolve
ClickTool_DropsSession(ref) ==
    LET refMap == GetRefMap
        res == ResolveRef(ref, refMap)
    IN  /\ reply' = [NoReply EXCEPT !.tool = "click", !.ref = ref, !.res = res,
                        !.isError = (res.kind # "Locator"),
                        !.error = IF res.kind # "Locator" THEN res.kind ELSE "",
                        !.partial = (pc = "building" /\ 0 < Len(building)
                                     /\ Len(building) < snapPage.n)]
        /\ op' = "click"
        /\ acted' = IF res.kind = "Locator" THEN <<res.locator>> ELSE <<>>
        /\ page' = IF res.kind = "Locator" THEN page ELSE BlankPage
        /\ UNCHANGED <<dom, hits, shot>>
        /\ UNCHANGED <<refs, version, pc, snapPage, building, gen, navigated>>
        /\ UNCHANGED <<profilerVars, serverVars>>

\* clickTool.handler: read the cache's map, resolve the ref, click the locator
ClickTool(ref) ==
    LET refMap == GetRefMap
        res == ResolveRef(ref, refMap)
    IN  /\ reply' = [NoReply EXCEPT !.tool = "click", !.ref = ref, !.res = res,
                        !.isError = (res.kind # "Locator"),
                        !.error = IF res.kind # "Locator" THEN res.kind ELSE "",
                        !.partial = (pc = "building" /\ 0 < Len(building)
                                     /\ Len(building) < snapPage.n)]
        /\ op' = "click"
        /\ acted' = IF res.kind = "Locator" THEN <<res.locator>> ELSE <<>>
        /\ UNCHANGED <<dom, hits, shot>>
        /\ UNCHANGED <<refs, version, page, pc, snapPage, building, gen, navigated>>
        /\ UNCHANGED <<profilerVars, serverVars>>

\* navigateTool: page.goto(url); ok is whether goto resolved
NavigateTool(p, ok) ==
    /\ page' = IF ok THEN p ELSE page
    /\ navigated' = IF ok THEN TRUE ELSE navigated
    /\ reply' = [NoReply EXCEPT !.tool = "navigate", !.isError = ~ok]
    /\ op' = "navigate"
    /\ acted' = <<>>
    /\ UNCHANGED <<dom, hits, shot>>
    /\ UNCHANGED <<refs, version, pc, snapPage, building, gen>>
    /\ UNCHANGED <<profilerVars, serverVars>>

\* reloadTool: page.reload(); ok is whether reload resolved
ReloadTool(ok) ==
    /\ navigated' = IF ok THEN TRUE ELSE navigated
    /\ reply' = [NoReply EXCEPT !.tool = "reload", !.isError = ~ok]
    /\ op' = "reload"
    /\ acted' = <<>>
    /\ UNCHANGED <<dom, hits, shot>>
    /\ UNCHANGED <<refs, version, page, pc, snapPage, building, gen>>
    /\ UNCHANGED <<profilerVars, serverVars>>

\* the owner of the cache calls invalidate()
InvalidateCall ==
    /\ Invalidate
    /\ gen' = [op |-> "invalidate", table |-> EmptyMap, prev |-> gen.table]
    /\ op' = "invalidate"
    /\ acted' = <<>>
    /\ UNCHANGED <<dom, hits, shot>>
    /\ UNCHANGED <<page, pc, snapPage, building, reply, navigated>>
    /\ UNCHANGED <<profilerVars, serverVars>>

Next ==
    \/ SnapshotStart
    \/ BuildStep
    \/ \E err \in {"ScopeNotFound", "DriverUnavailable"} : SnapshotFail(err)
    \/ SnapshotPublish
    \/ SnapshotReturn
    \/ \E ref \in ToolTokens : ClickTool(ref)
    \/ \E p \in Pages(MaxPage), ok \in BOOLEAN : NavigateTool(p, ok)
    \/ \E ok \in BOOLEAN : ReloadTool(ok)
    \/ InvalidateCall

Spec == Init /\ [][Next]_vars

----------------------------------------------------------------------------
(* The resolver applied to every token against every snapshot table *)

InitResolver ==
    /\ page \in Pages(MaxRefs)
    /\ refs = Table(page)
    /\ version = 1
    /\ pc = "idle"
    /\ snapPage = BlankPage
    /\ building = EmptyMap
    /\ op = "init"
    /\ reply = NoReply
    /\ gen = [op |-> "updateRefs", table |-> Table(page), prev |-> EmptyMap]
    /\ navigated = FALSE
    /\ dom = <<>>
    /\ hits = <<>>
    /\ acted = <<>>
    /\ shot = [dom |-> <<>>, cursor |-> FALSE, interactive |-> FALSE]
    /\ ProfilerInit
    /\ ServerInit

\* a caller resolves a token against the cache's map
ResolveCall(ref) ==
    LET refMap == GetRefMap
        res == ResolveRef(ref, refMap)
    IN  /\ reply' = [NoReply EXCEPT !.tool = "resolve", !.ref = ref, !.res = res,
                        !.isError = (res.kind # "Locator"),
                        !.error = IF res.kind # "Locator" THEN res.kind ELSE ""]
        /\ op' = "resolve"
        /\ acted' = <<>>
        /\ UNCHANGED <<dom, hits, shot>>
        /\ UNCHANGED <<refs, version, page, pc, snapPage, building, gen, navigated>>
        /\ UNCHANGED <<profilerVars, serverVars>>

NextResolver == \E ref \in Tokens : ResolveCall(ref)

SpecResolver == InitResolver /\ [][NextResolver]_vars

----------------------------------------------------------------------------
(* Documents with named elements, their snapshot, and what a locator matches *)

MaxDom == 3         \* largest number of elements of a document

NameGo == <<"G", "o">>

NameGone == <<"G", "O", "N", "E">>

\* the elements a document is made of: role "" is an element without an ARIA
\* role; cursor says why it is cursor-interactive, if it is
ButtonGo ==
    [role |-> "button", name |-> NameGo, cursor |-> "none", css |-> <<"css", "button.go">>]

ButtonGone ==
    [role |-> "button", name |-> NameGone, cursor |-> "none", css |-> <<"css", "button.gone">>]

LinkGo ==
    [role |-> "link", name |-> NameGo, cursor |-> "none", css |-> <<"css", "a.go">>]

CardDiv ==
    [role |-> "", name |-> NameGo, cursor |-> "pointer", css |-> <<"css", "div.card">>]

TabSpan ==
    [role |-> "", name |-> NameGone, cursor |-> "tabindex", css |-> <<"css", "span.tab">>]

DomElements == {ButtonGo, ButtonGone, LinkGo, CardDiv, TabSpan}

\* a heading: a node with a role that is not an interactive one
HeadingGo ==
    [role |-> "heading", name |-> NameGo, cursor |-> "none", css |-> <<"css", "h1">>]

Doms == UNION {[1..k -> DomElements] : k \in 0..MaxDom}

\* whether the snapshot gives the element a ref
Surfaced(e, cursor) == e.role # "" \/ (cursor /\ e.cursor # "none")

\* the role the snapshot records: the ARIA role, or a sentinel
SnapRole(e) ==
    IF e.role # "" THEN e.role
    ELSE IF e.cursor = "pointer" THEN "clickable" ELSE "focusable"

\* surfaced elements among 1..k with the role and name of element i
DomTwins(d, cursor, i, k) ==
    {j \in 1..k : /\ Surfaced(d[j], cursor)
                  /\ d[j].role # ""
                  /\ d[j].role = d[i].role
                  /\ d[j].name = d[i].name}

\* RefData of element i of document d
DomDescriptor(d, cursor, i) ==
    IF d[i].role # ""
    THEN [selector |-> <<"getByRole", d[i].role>>,
          role |-> d[i].role,
          name |-> <<d[i].name>>,
          nth |-> IF Cardinality(DomTwins(d, cursor, i, Len(d))) > 1
                  THEN <<Cardinality(DomTwins(d, cursor, i, i - 1))>>
                  ELSE <<>>]
    ELSE [selector |-> d[i].css,
          role |-> SnapRole(d[i]),
          name |-> <<d[i].name>>,
          nth |-> <<>>]

\* a walk whose counter also counts the elements it skips
RECURSIVE DomBuild_CountsSkipped(_, _, _, _)
DomBuild_CountsSkipped(d, cursor, i, table) ==
    IF i > Len(d) THEN table
    ELSE IF Surfaced(d[i], cursor)
    THEN DomBuild_CountsSkipped(d, cursor, i + 1,
             Append(table, [key |-> RefKey(i),
                            data |-> DomDescriptor(d, cursor, i)]))
    ELSE DomBuild_CountsSkipped(d, cursor, i + 1, table)

\* a walk whose counter lives on across calls: it goes on from the number of
\* tables published so far
RECURSIVE DomBuild_GlobalCounter(_, _, _, _)
DomBuild_GlobalCounter(d, cursor, i, table) ==
    IF i > Len(d) THEN table
    ELSE IF Surfaced(d[i], cursor)
    THEN DomBuild_GlobalCounter(d, cursor, i + 1,
             Append(table, [key |-> RefKey(Len(table) + 1 + version),
                            data |-> DomDescriptor(d, cursor, i)]))
    ELSE DomBuild_GlobalCounter(d, cursor, i + 1, table)

\* the pre-order walk from element i on: each surfaced element gets the next ref
RECURSIVE DomBuild(_, _, _, _)
DomBuild(d, cursor, i, table) ==
    IF i > Len(d) THEN table
    ELSE IF Surfaced(d[i], cursor)
    THEN DomBuild(d, cursor, i + 1,
             Append(table, [key |-> RefKey(Len(table) + 1),
                            data |-> DomDescriptor(d, cursor, i)]))
    ELSE DomBuild(d, cursor, i + 1, table)

\* the ref table of a snapshot of document d
DomTable(d, cursor) == DomBuild(d, cursor, 1, EmptyMap)

\* the roles the interactive filter keeps
InteractiveRoles == {"button", "link", "textbox", "checkbox", "combobox"}

\* a filter that lets every node with a role through
Survivors_KeepsAll(d, interactive) ==
    SelectSeq(d, LAMBDA e : TRUE)

\* the nodes of d the interactive filter lets through: the filter is applied
\* node by node and drops the nodes whose role is not an interactive one
Survivors(d, interactive) ==
    SelectSeq(d, LAMBDA e : ~interactive \/ e.role = "" \/ e.role \in InteractiveRoles)

\* the ref table of a snapshot of document d taken with the given options
DomTableOpts(d, cursor, interactive) == DomTable(Survivors(d, interactive), cursor)

\* the surfaced elements of d in DOM order: the k-th one got ref ek
SurfacedSeq(d, cursor) ==
    SelectSeq([i \in 1..Len(d) |-> i], LAMBDA i : Surfaced(d[i], cursor))

\* String.prototype.toLowerCase on the characters element names use
Lower(c) ==
    CASE c = "G" -> "g" [] c = "O" -> "o" [] c = "N" -> "n" [] c = "E" -> "e"
      [] OTHER -> c

LowerStr(str) == [i \in 1..Len(str) |-> Lower(str[i])]

\* hasText with a string: case-insensitive substring of the element's text
ContainsText(text, needle) ==
    \E k \in 0..(Len(text) - Len(needle)) :
        SubSeq(LowerStr(text), k + 1, k + Len(needle)) = LowerStr(needle)

\* the elements of d a locator matches, in DOM order: page.locator(selector),
\* or page.getByRole(role).filter({ hasText }).nth(n)
LocatorHits(loc, d) ==
    LET all == [i \in 1..Len(d) |-> i]
    IN  IF loc.by = "selector"
        THEN SelectSeq(all, LAMBDA i : d[i].css = loc.selector)
        ELSE LET byRole == SelectSeq(all, LAMBDA i : d[i].role = loc.role)
                 filtered == IF loc.hasText # <<>>
                             THEN SelectSeq(byRole,
                                    LAMBDA i : ContainsText(d[i].name, loc.hasText[1]))
                             ELSE byRole
             IN  IF loc.nth # <<>>
                 THEN IF loc.nth[1] < Len(filtered)
                      THEN <<filtered[loc.nth[1] + 1]>>
                      ELSE <<>>
                 ELSE filtered

----------------------------------------------------------------------------
(* Resolution against a document: snapshot, resolve, click, page mutation *)

\* tokens the tools of this part are called with
DomTokens == {<<"e", "1">>, <<"e", "2">>, <<"@", "e", "2">>, <<"e", "3">>}

InitDom ==
    /\ dom \in Doms
    /\ \E c \in BOOLEAN :
          /\ refs = DomTable(dom, c)
          /\ shot = [dom |-> dom, cursor |-> c, interactive |-> FALSE]
    /\ version = 1
    /\ page = BlankPage
    /\ pc = "idle"
    /\ snapPage = BlankPage
    /\ building = EmptyMap
    /\ op = "init"
    /\ reply = NoReply
    /\ gen = [op |-> "updateRefs", table |-> refs, prev |-> EmptyMap]
    /\ navigated = FALSE
    /\ hits = <<>>
    /\ acted = <<>>
    /\ ProfilerInit
    /\ ServerInit

\* handleSnapshot run to completion on the document with the options
\* { cursor: c, interactive: i }: build, publish, count
SnapshotDom(c, i) ==
    LET table == DomTableOpts(dom, c, i)
    IN  /\ version < MaxVersion
        /\ UpdateRefs(table)
        /\ gen' = [op |-> "updateRefs", table |-> table, prev |-> gen.table]
        /\ shot' = [dom |-> dom, cursor |-> c, interactive |-> i]
        /\ reply' = [NoReply EXCEPT !.tool = "snapshot", !.nrefs = Len(table),
                        !.refCount = Len(table), !.fields = SnapshotFields]
        /\ navigated' = FALSE
        /\ op' = "snapshotDom"
        /\ hits' = <<>>
        /\ acted' = <<>>
        /\ UNCHANGED <<page, pc, snapPage, building, dom>>
        /\ UNCHANGED <<profilerVars, serverVars>>

\* a resolve that asks the page and reports a locator without matches as
\* a ref that was not found
ResolveDom_CountsMatches(ref) ==
    LET refMap == GetRefMap
        found == ResolveRef(ref, refMap)
        matched == IF found.kind = "Locator" THEN LocatorHits(found.locator, dom)
                   ELSE <<>>
        res == IF found.kind = "Locator" /\ matched = <<>>
               THEN NotFoundError(ref, refMap) ELSE found
    IN  /\ reply' = [NoReply EXCEPT !.tool = "resolve", !.ref = ref, !.res = res,
                        !.isError = (res.kind # "Locator"),
                        !.error = IF res.kind # "Locator" THEN res.kind ELSE ""]
        /\ hits' = matched
        /\ op' = "resolveDom"
        /\ acted' = <<>>
        /\ UNCHANGED <<refs, version, page, pc, snapPage, building, gen, navigated,
                       dom, shot>>
        /\ UNCHANGED <<profilerVars, serverVars>>

\* a resolve that drops the table when the ref is not in it
ResolveDom_Evicts(ref) ==
    LET refMap == GetRefMap
        res == ResolveRef(ref, refMap)
    IN  /\ reply' = [NoReply EXCEPT !.tool = "resolve", !.ref = ref, !.res = res,
                        !.isError = (res.kind # "Locator"),
                        !.error = IF res.kind # "Locator" THEN res.kind ELSE ""]
        /\ hits' = IF res.kind = "Locator" THEN LocatorHits(res.locator, dom) ELSE <<>>
        /\ op' = "resolveDom"
        /\ acted' = <<>>
        /\ refs' = IF res.kind = "RefNotFound" THEN EmptyMap ELSE refs
        /\ UNCHANGED <<version, page, pc, snapPage, building, gen, navigated,
                       dom, shot>>
        /\ UNCHANGED <<profilerVars, serverVars>>

\* resolveRef(page, ref, getRefMap()); hits is what the returned locator would
\* match if it were used now
ResolveDom(ref) ==
    LET refMap == GetRefMap
        res == ResolveRef(ref, refMap)
    IN  /\ reply' = [NoReply EXCEPT !.tool = "resolve", !.ref = ref, !.res = res,
                        !.isError = (res.kind # "Locator"),
                        !.error = IF res.kind # "Locator" THEN res.kind ELSE ""]
        /\ hits' = IF res.kind = "Locator" THEN LocatorHits(res.locator, dom) ELSE <<>>
        /\ op' = "resolveDom"
        /\ acted' = <<>>
        /\ UNCHANGED <<refs, version, page, pc, snapPage, building, gen, navigated,
                       dom, shot>>
        /\ UNCHANGED <<profilerVars, serverVars>>

\* what locator.click() answers for the elements the locator matches
ActionError(matched) ==
    IF Len(matched) = 0 THEN "Timeout"
    ELSE IF Len(matched) > 1 THEN "StrictModeViolation"
    ELSE ""

\* a click that drops the table when it cannot find the ref
ClickDom_Evicts(ref) ==
    LET refMap == GetRefMap
        res == ResolveRef(ref, refMap)
        matched == IF res.kind = "Locator" THEN LocatorHits(res.locator, dom) ELSE <<>>
        error == IF res.kind # "Locator" THEN res.kind ELSE ActionError(matched)
    IN  /\ reply' = [NoReply EXCEPT !.tool = "click", !.ref = ref, !.res = res,
                        !.isError = (error # ""), !.error = error]
        /\ hits' = matched
        /\ op' = "clickDom"
        /\ acted' = IF res.kind = "Locator" THEN <<res.locator>> ELSE <<>>
        /\ refs' = IF res.kind = "RefNotFound" THEN EmptyMap ELSE refs
        /\ version' = IF res.kind = "RefNotFound" THEN 0 ELSE version
        /\ UNCHANGED <<page, pc, snapPage, building, gen, navigated, dom, shot>>
        /\ UNCHANGED <<profilerVars, serverVars>>

\* clickTool.handler on the document: resolve, then locator.click()
ClickDom(ref) ==
    LET refMap == GetRefMap
        res == ResolveRef(ref, refMap)
        matched == IF res.kind = "Locator" THEN LocatorHits(res.locator, dom) ELSE <<>>
        error == IF res.kind # "Locator" THEN res.kind ELSE ActionError(matched)
    IN  /\ reply' = [NoReply EXCEPT !.tool = "click", !.ref = ref, !.res = res,
                        !.isError = (error # ""), !.error = error]
        /\ hits' = matched
        /\ op' = "clickDom"
        /\ acted' = IF res.kind = "Locator" THEN <<res.locator>> ELSE <<>>
        /\ UNCHANGED <<refs, version, page, pc, snapPage, building, gen, navigated,
                       dom, shot>>
        /\ UNCHANGED <<profilerVars, serverVars>>

\* the page's own script removes element k from the document; the model lets
\* it do so once per snapshot
RemoveElement(k) ==
    /\ k \in 1..Len(dom)
    /\ dom = shot.dom
    /\ dom' = SubSeq(dom, 1, k - 1) \o SubSeq(dom, k + 1, Len(dom))
    /\ op' = "removeElement"
    /\ reply' = NoReply
    /\ hits' = <<>>
    /\ acted' = <<>>
    /\ UNCHANGED <<refs, version, page, pc, snapPage, building, gen, navigated, shot>>
    /\ UNCHANGED <<profilerVars, serverVars>>

NextLocator ==
    \/ \E c \in BOOLEAN : SnapshotDom(c, FALSE)
    \/ \E ref \in DomTokens : ResolveDom(ref)
    \/ \E k \in 1..MaxDom : RemoveElement(k)

SpecLocator == InitDom /\ [][NextLocator]_vars

----------------------------------------------------------------------------
(* The tools around the cache: who writes it, and what callers share with it *)

\* the documents behind the URLs the tools of this part open
SiteDocs == {<<>>, <<ButtonGo, CardDiv>>, <<HeadingGo, ButtonGo, LinkGo>>}

\* the ref arguments of the tools of this part; <<>> is an absent argument
ArgTokens == {<<>>, <<"e", "1">>, <<"@", "e", "2">>, <<"e", "3">>}

\* a name a caller writes into a descriptor
NameX == <<"X">>

InitTools ==
    /\ dom \in SiteDocs
    /\ refs = EmptyMap
    /\ version = 0
    /\ page = BlankPage
    /\ pc = "idle"
    /\ snapPage = BlankPage
    /\ building = EmptyMap
    /\ op = "init"
    /\ reply = NoReply
    /\ gen = [op |-> "init", table |-> EmptyMap, prev |-> EmptyMap]
    /\ navigated = FALSE
    /\ hits = <<>>
    /\ acted = <<>>
    /\ shot = [dom |-> <<>>, cursor |-> FALSE, interactive |-> FALSE]
    /\ ProfilerInit
    /\ ServerInit

\* ref.replace('@', ''): the first "@" is dropped, wherever it is
ReplaceAt(ref) ==
    IF \E i \in 1..Len(ref) : ref[i] = "@"
    THEN LET i == CHOOSE j \in 1..Len(ref) :
                      ref[j] = "@" /\ \A h \in 1..(j - 1) : ref[h] # "@"
         IN  SubSeq(ref, 1, i - 1) \o SubSeq(ref, i + 1, Len(ref))
    ELSE ref

\* page.locator(`css=${refData.selector}`)
CssLocator(refData) == [NoLocator EXCEPT !.by = "selector", !.selector = refData.selector]

\* the ref branch waitTool and screenshotTool share: look the key up in the
\* cache's map, build a css locator from the descriptor, use it on the page
RefBranch(tool, ref) ==
    LET refMap == GetRefMap
        refData == Prop(refMap, ReplaceAt(ref))
        found == refData # <<>>
        locator == IF found THEN CssLocator(refData[1]) ELSE NoLocator
        matched == IF found THEN LocatorHits(locator, dom) ELSE <<>>
        error == IF found THEN ActionError(matched) ELSE "InvalidRef"
    IN  /\ reply' = [NoReply EXCEPT !.tool = tool, !.ref = ref,
                        !.isError = (error # ""), !.error = error,
                        !.res = [NoResult EXCEPT
                                   !.kind = IF found THEN "Locator" ELSE "InvalidRef",
                                   !.ref = ref, !.lookedUp = TRUE,
                                   !.locator = locator]]
        /\ hits' = matched
        /\ acted' = IF found THEN <<locator>> ELSE <<>>

\* waitTool with mode "ref"
WaitTool(ref) ==
    /\ IF ref = <<>>
       THEN /\ reply' = [NoReply EXCEPT !.tool = "wait", !.isError = TRUE,
                            !.error = "RefRequired"]
            /\ hits' = <<>>
            /\ acted' = <<>>
       ELSE RefBranch("wait", ref)
    /\ op' = "wait"
    /\ UNCHANGED <<refs, version, page, pc, snapPage, building, gen, navigated,
                   dom, shot>>
    /\ UNCHANGED <<profilerVars, serverVars>>

\* screenshotTool: of the element a ref names, or of the page without a ref
ScreenshotTool(ref) ==
    /\ IF ref = <<>>
       THEN /\ reply' = [NoReply EXCEPT !.tool = "screenshot"]
            /\ hits' = <<>>
            /\ acted' = <<>>
       ELSE RefBranch("screenshot", ref)
    /\ op' = "screenshot"
    /\ UNCHANGED <<refs, version, page, pc, snapPage, building, gen, navigated,
                   dom, shot>>
    /\ UNCHANGED <<profilerVars, serverVars>>

\* diffTool with type "snapshot": a baseline from a file or from the last
\* snapshot, then getSnapshot() of the current page
DiffSnapshot(baseline) ==
    LET table == DomTable(dom, FALSE)
        failed == \/ baseline = "unreadable"
                  \/ baseline = "stored" /\ gen.op = "init"
    IN  /\ ~failed => version < MaxVersion
        /\ IF failed
           THEN UNCHANGED <<refs, version, gen, shot, navigated>>
           ELSE /\ UpdateRefs(table)
                /\ gen' = [op |-> "updateRefs", table |-> table, prev |-> gen.table]
                /\ shot' = [dom |-> dom, cursor |-> FALSE, interactive |-> FALSE]
                /\ navigated' = FALSE
        /\ reply' = [NoReply EXCEPT !.tool = "diff", !.isError = failed,
                        !.error = IF failed THEN "NoBaseline" ELSE ""]
        /\ op' = "diffSnapshot"
        /\ hits' = <<>>
        /\ acted' = <<>>
        /\ UNCHANGED <<page, pc, snapPage, building, dom>>
        /\ UNCHANGED <<profilerVars, serverVars>>

\* diffTool with type "screenshot": a baseline file against page.screenshot()
DiffScreenshot(baseline) ==
    /\ reply' = [NoReply EXCEPT !.tool = "diff",
                    !.isError = (baseline # "file"),
                    !.error = IF baseline # "file" THEN "NoBaseline" ELSE ""]
    /\ op' = "diffScreenshot"
    /\ hits' = <<>>
    /\ acted' = <<>>
    /\ UNCHANGED <<refs, version, page, pc, snapPage, building, gen, navigated,
                   dom, shot>>
    /\ UNCHANGED <<profilerVars, serverVars>>

\* diffTool with type "url": goto(url1), getSnapshot(), goto(url2),
\* getSnapshot(); ok1 and ok2 are whether the two goto calls resolved
DiffUrl(d1, d2, ok1, ok2) ==
    LET published == IF ~ok1 THEN 0 ELSE IF ~ok2 THEN 1 ELSE 2
        shown == IF ~ok1 THEN dom ELSE IF ~ok2 THEN d1 ELSE d2
        table == DomTable(shown, FALSE)
    IN  /\ version + published <= MaxVersion
        /\ dom' = shown
        /\ IF published = 0
           THEN UNCHANGED <<refs, version, gen, shot, navigated>>
           ELSE /\ refs' = table
                /\ version' = version + published
                /\ gen' = [op |-> "updateRefs", table |-> table,
                           prev |-> IF published = 2 THEN DomTable(d1, FALSE)
                                    ELSE gen.table]
                /\ shot' = [dom |-> shown, cursor |-> FALSE, interactive |-> FALSE]
                /\ navigated' = FALSE
        /\ reply' = [NoReply EXCEPT !.tool = "diff", !.isError = (published < 2),
                        !.error = IF published < 2 THEN "NavigationFailed" ELSE ""]
        /\ op' = "diffUrl"
        /\ hits' = <<>>
        /\ acted' = <<>>
        /\ UNCHANGED <<page, pc, snapPage, building>>
        /\ UNCHANGED <<profilerVars, serverVars>>

\* the code that passed a table to updateRefs deletes entry k of its object:
\* the cache stored that object itself, so it loses the entry as well
CallerDeletesPassedKey(k) ==
    /\ gen.op = "updateRefs"
    /\ k \in 1..Len(refs)
    /\ refs' = SubSeq(refs, 1, k - 1) \o SubSeq(refs, k + 1, Len(refs))
    /\ op' = "callerDeletesPassedKey"
    /\ acted' = <<>>
    /\ UNCHANGED <<version, page, pc, snapPage, building, reply, gen, navigated,
                   dom, hits, shot>>
    /\ UNCHANGED <<profilerVars, serverVars>>

\* a caller of getRefMap() assigns to the name of entry k of the map it got:
\* the copy is shallow, the descriptor is the cache's own
CallerWritesDescriptor(k) ==
    /\ k \in 1..Len(refs)
    /\ refs[k].data.name # <<NameX>>
    /\ refs' = [refs EXCEPT ![k].data.name = <<NameX>>]
    /\ op' = "callerWritesDescriptor"
    /\ acted' = <<>>
    /\ UNCHANGED <<version, page, pc, snapPage, building, reply, gen, navigated,
                   dom, hits, shot>>
    /\ UNCHANGED <<profilerVars, serverVars>>

\* a caller of getRefMap() deletes entry k of the map it got: the map is a
\* copy, the cache keeps the entry
CallerDeletesCopiedKey(k) ==
    /\ k \in 1..Len(refs)
    /\ op' = "callerDeletesCopiedKey"
    /\ acted' = <<>>
    /\ UNCHANGED <<refs, version, page, pc, snapPage, building, reply, gen,
                   navigated, dom, hits, shot>>
    /\ UNCHANGED <<profilerVars, serverVars>>

Baselines == {"file", "unreadable", "stored"}

NextTools ==
    \/ \E c, i \in BOOLEAN : SnapshotDom(c, i)
    \/ \E ref \in ArgTokens \ {<<>>} : ClickDom(ref)
    \/ \E ref \in ArgTokens : WaitTool(ref)
    \/ \E ref \in ArgTokens : ScreenshotTool(ref)
    \/ \E b \in Baselines : DiffSnapshot(b)
    \/ \E b \in Baselines : DiffScreenshot(b)
    \/ \E d1, d2 \in SiteDocs, ok1, ok2 \in BOOLEAN : DiffUrl(d1, d2, ok1, ok2)
    \/ InvalidateCall
    \/ \E k \in 1..MaxDom : CallerDeletesPassedKey(k)
    \/ \E k \in 1..MaxDom : CallerWritesDescriptor(k)
    \/ \E k \in 1..MaxDom : CallerDeletesCopiedKey(k)

SpecTools == InitTools /\ [][NextTools]_vars

----------------------------------------------------------------------------
(* A snapshot call and the calls that complete while it awaits the title *)

\* handleSnapshot up to its await of page.title(): getSnapshot(options) has
\* published the table, which the call holds as snapshot.refs
SnapshotCall(c, i) ==
    LET table == DomTableOpts(dom, c, i)
    IN  /\ pc = "idle"
        /\ version < MaxVersion
        /\ UpdateRefs(table)
        /\ building' = table
        /\ pc' = "title"
        /\ gen' = [op |-> "updateRefs", table |-> table, prev |-> gen.table]
        /\ shot' = [dom |-> dom, cursor |-> c, interactive |-> i]
        /\ navigated' = FALSE
        /\ op' = "snapshotCall"
        /\ hits' = <<>>
        /\ acted' = <<>>
        /\ UNCHANGED <<page, snapPage, reply, dom>>
        /\ UNCHANGED <<profilerVars, serverVars>>

NextCalls ==
    \/ \E c, i \in BOOLEAN : SnapshotCall(c, i)
    \/ SnapshotReturn
    \/ \E c, i \in BOOLEAN : SnapshotDom(c, i)
    \/ InvalidateCall

SpecCalls == InitTools /\ [][NextCalls]_vars

----------------------------------------------------------------------------
(* The tools that take a ref, side by side *)

\* the ref arguments of the tools of this part: present and absent keys, with
\* and without "@", an "@" that is not a prefix, no "e", and no argument
RefArgs ==
    {<<>>, <<"e", "1">>, <<"@", "e", "2">>, <<"e", "9">>, <<"e", "1", "@">>,
     <<"@", "1">>}

\* the two refs of a drag
DragArgs == {<<"e", "1">>, <<"@", "e", "2">>, <<"e", "9">>, <<"@", "1">>}

\* the tools of one ref that resolve it and call one method of the locator
LocatorTools == {"select", "check", "uncheck", "dblclick", "focus"}

\* selectTool, checkTool, uncheckTool, dblclickTool, focusTool: resolveRef, then
\* the locator's method
InteractTool(tool, ref) ==
    LET refMap == GetRefMap
        res == ResolveRef(ref, refMap)
        matched == IF res.kind = "Locator" THEN LocatorHits(res.locator, dom) ELSE <<>>
        error == IF res.kind # "Locator" THEN res.kind ELSE ActionError(matched)
    IN  /\ reply' = [NoReply EXCEPT !.tool = tool, !.ref = ref, !.res = res,
                        !.isError = (error # ""), !.error = error]
        /\ hits' = matched
        /\ op' = "interact"
        /\ acted' = IF res.kind = "Locator" THEN <<res.locator>> ELSE <<>>
        /\ UNCHANGED <<refs, version, page, pc, snapPage, building, gen, navigated,
                       dom, shot>>
        /\ UNCHANGED <<profilerVars, serverVars>>

\* a drag that presses the mouse on the source before it resolves the target
DragTool_SourceFirst(fromRef, toRef) ==
    LET refMap == GetRefMap
        from == ResolveRef(fromRef, refMap)
        to == ResolveRef(toRef, refMap)
        res == IF from.kind # "Locator" THEN from ELSE to
        matched == IF from.kind = "Locator" THEN LocatorHits(from.locator, dom) ELSE <<>>
        error == IF res.kind # "Locator" THEN res.kind ELSE ActionError(matched)
    IN  /\ reply' = [NoReply EXCEPT !.tool = "drag", !.ref = fromRef,
                        !.toRef = toRef, !.res = res,
                        !.isError = (error # ""), !.error = error]
        /\ hits' = matched
        /\ op' = "drag"
        /\ acted' = IF from.kind # "Locator" THEN <<>>
                    ELSE IF to.kind # "Locator" THEN <<from.locator>>
                    ELSE <<from.locator, to.locator>>
        /\ UNCHANGED <<refs, version, page, pc, snapPage, building, gen, navigated,
                       dom, shot>>
        /\ UNCHANGED <<profilerVars, serverVars>>

\* dragTool: resolveRef of fromRef, resolveRef of toRef, then
\* fromLocator.dragTo(toLocator); the first resolve that throws ends the call
DragTool(fromRef, toRef) ==
    LET refMap == GetRefMap
        from == ResolveRef(fromRef, refMap)
        to == ResolveRef(toRef, refMap)
        res == IF from.kind # "Locator" THEN from ELSE to
        resolved == res.kind = "Locator"
        matched == IF resolved THEN LocatorHits(from.locator, dom) ELSE <<>>
        error == IF ~resolved THEN res.kind ELSE ActionError(matched)
    IN  /\ reply' = [NoReply EXCEPT !.tool = "drag", !.ref = fromRef,
                        !.toRef = toRef, !.res = res,
                        !.isError = (error # ""), !.error = error]
        /\ hits' = matched
        /\ op' = "drag"
        /\ acted' = IF resolved THEN <<from.locator, to.locator>> ELSE <<>>
        /\ UNCHANGED <<refs, version, page, pc, snapPage, building, gen, navigated,
                       dom, shot>>
        /\ UNCHANGED <<profilerVars, serverVars>>

\* highlightToolHandler, action "highlight": an element argument that starts
\* with "@" or matches ^e\d+$ is looked up, under a key that starts with "@",
\* in a snapshot the handler takes of the page itself; any other argument is
\* the CSS selector. document.querySelectorAll(selector) gives the elements.
HighlightTool(element) ==
    LET isAt == element # <<>> /\ element[1] = "@"
        isBare == /\ Len(element) >= 2
                  /\ element[1] = "e"
                  /\ \A i \in 2..Len(element) : element[i] \in DigitChars
        key == IF isAt THEN element ELSE <<"@">> \o element
        snapshot == DomTableOpts(dom, FALSE, FALSE)
        elementData == Prop(snapshot, key)
        found == (isAt \/ isBare) /\ elementData # <<>>
        locator == IF found THEN CssLocator(elementData[1]) ELSE NoLocator
        matched == IF found THEN LocatorHits(locator, dom) ELSE <<>>
        error == IF element = <<>> THEN "ElementRequired"
                 ELSE IF (isAt \/ isBare) /\ ~found THEN "NotFoundInSnapshot"
                 ELSE IF Len(matched) = 0 THEN "NoElements"
                 ELSE ""
    IN  /\ reply' = [NoReply EXCEPT !.tool = "highlight", !.ref = element,
                        !.isError = (error # ""), !.error = error]
        /\ hits' = matched
        /\ acted' = IF found THEN <<locator>> ELSE <<>>
        /\ op' = "highlight"
        /\ UNCHANGED <<refs, version, page, pc, snapPage, building, gen, navigated,
                       dom, shot>>
        /\ UNCHANGED <<profilerVars, serverVars>>

\* generateRef: `e${Date.now() % 1000}`
RefModulus == 1000

GenerateRef(now) == <<"e">> \o Digits(now % RefModulus)

\* readings of Date.now(), in milliseconds
Clock == {1001, 1002, 2003, 1999}

\* the CSS selectors a client passes to browser_find
FindSelectors ==
    {ButtonGo.css, CardDiv.css, LinkGo.css, HeadingGo.css, TabSpan.css}

\* findToolHandler with locator "selector <css>" and action "click":
\* buildLocator gives page.locator(css), executeAction clicks it and returns
\* generateRef()
FindTool(selector, now) ==
    LET locator == [NoLocator EXCEPT !.by = "selector", !.selector = selector]
        matched == LocatorHits(locator, dom)
        error == ActionError(matched)
    IN  /\ reply' = [NoReply EXCEPT !.tool = "find",
                        !.ref = IF error = "" THEN GenerateRef(now) ELSE <<>>,
                        !.isError = (error # ""), !.error = error]
        /\ hits' = matched
        /\ acted' = <<locator>>
        /\ op' = "find"
        /\ UNCHANGED <<refs, version, page, pc, snapPage, building, gen, navigated,
                       dom, shot>>
        /\ UNCHANGED <<profilerVars, serverVars>>

NextRefTools ==
    \/ \E c, i \in BOOLEAN : SnapshotDom(c, i)
    \/ \E ref \in RefArgs : ClickDom(ref)
    \/ \E tool \in LocatorTools, ref \in RefArgs : InteractTool(tool, ref)
    \/ \E fromRef, toRef \in DragArgs : DragTool(fromRef, toRef)
    \/ \E ref \in RefArgs : WaitTool(ref)
    \/ \E ref \in RefArgs : ScreenshotTool(ref)
    \/ \E element \in RefArgs : HighlightTool(element)
    \/ \E selector \in FindSelectors, now \in Clock : FindTool(selector, now)

SpecRefTools == InitTools /\ [][NextRefTools]_vars

----------------------------------------------------------------------------
(* browser_profiler: start, stop and status calls in flight together *)

\* the catch blocks of start and stop: the module state is reset
ResetProfiler ==
    /\ isProfiling' = FALSE
    /\ profileSessionId' = 0
    /\ profileDataChunks' = 0

\* the calls are numbered in the order the dispatcher starts them
NextCallId(id) ==
    /\ calls[id].action = "none"
    /\ \A h \in 1..(id - 1) : calls[h].action # "none"

\* a profiling session is active: the browser records a trace for a start
\* call, or the module says so
SessionActive == isProfiling \/ cdp.tracing

\* action "start" up to its first await: the isProfiling check
StartCall(id) ==
    /\ NextCallId(id)
    /\ calls' = [calls EXCEPT ![id] =
                   IF isProfiling
                   THEN [NoCall EXCEPT !.action = "start", !.pc = "done",
                            !.reply = "AlreadyActive",
                            !.sessionId = profileSessionId,
                            !.during = SessionActive]
                   ELSE [NoCall EXCEPT !.action = "start", !.pc = "cdp",
                            !.during = SessionActive]]
    /\ UNCHANGED <<isProfiling, profileSessionId, profileDataChunks, cdp>>
    /\ UNCHANGED <<cacheVars, serverVars>>

\* start after getCDPSession: the chunks are cleared, the listeners are
\* registered and stored on the session, and Tracing.start is sent, which the
\* browser refuses when it records a trace already; a getCDPSession that
\* throws goes to the catch block
StartGotSession(id, ok) ==
    /\ calls[id].action = "start"
    /\ calls[id].pc = "cdp"
    /\ IF ok
       THEN /\ profileDataChunks' = 0
            /\ cdp' = [cdp EXCEPT !.listeners = @ + 1, !.stored = TRUE,
                                  !.tracing = TRUE]
            /\ calls' = [calls EXCEPT ![id].pc = "sent", ![id].ok = ~cdp.tracing]
            /\ UNCHANGED <<isProfiling, profileSessionId>>
       ELSE /\ ResetProfiler
            /\ calls' = [calls EXCEPT ![id].pc = "done", ![id].reply = "StartFailed"]
            /\ UNCHANGED cdp
    /\ UNCHANGED <<cacheVars, serverVars>>

\* start after the answer to Tracing.start: the session id and the flag are
\* set, or the catch block resets the module state
StartResumed(id) ==
    /\ calls[id].action = "start"
    /\ calls[id].pc = "sent"
    /\ IF calls[id].ok
       THEN /\ profileSessionId' = id
            /\ isProfiling' = TRUE
            /\ calls' = [calls EXCEPT ![id].pc = "done", ![id].reply = "Started",
                                      ![id].sessionId = id]
            /\ UNCHANGED profileDataChunks
       ELSE /\ ResetProfiler
            /\ calls' = [calls EXCEPT ![id].pc = "done", ![id].reply = "StartFailed"]
    /\ UNCHANGED cdp
    /\ UNCHANGED <<cacheVars, serverVars>>

\* a Tracing.dataCollected event: every registered dataHandler pushes a chunk
DataCollected ==
    /\ cdp.tracing
    /\ cdp.listeners > 0
    /\ profileDataChunks + cdp.listeners <= MaxChunks
    /\ profileDataChunks' = profileDataChunks + cdp.listeners
    /\ UNCHANGED <<isProfiling, profileSessionId, cdp, calls>>
    /\ UNCHANGED <<cacheVars, serverVars>>

\* action "stop" up to its first await: the isProfiling check
StopCall(id) ==
    /\ NextCallId(id)
    /\ calls' = [calls EXCEPT ![id] =
                   IF ~isProfiling
                   THEN [NoCall EXCEPT !.action = "stop", !.pc = "done",
                            !.reply = "NoSession", !.during = SessionActive]
                   ELSE [NoCall EXCEPT !.action = "stop", !.pc = "cdp",
                            !.during = SessionActive]]
    /\ UNCHANGED <<isProfiling, profileSessionId, profileDataChunks, cdp>>
    /\ UNCHANGED <<cacheVars, serverVars>>

\* stop after getCDPSession: Tracing.end is sent, which the browser refuses
\* when it records no trace
StopGotSession(id, ok) ==
    /\ calls[id].action = "stop"
    /\ calls[id].pc = "cdp"
    /\ IF ok
       THEN /\ cdp' = [cdp EXCEPT !.tracing = FALSE]
            /\ calls' = [calls EXCEPT ![id].pc = "sent", ![id].ok = cdp.tracing]
            /\ UNCHANGED <<isProfiling, profileSessionId, profileDataChunks>>
       ELSE /\ ResetProfiler
            /\ calls' = [calls EXCEPT ![id].pc = "done", ![id].reply = "StopFailed"]
            /\ UNCHANGED cdp
    /\ UNCHANGED <<cacheVars, serverVars>>

\* stop after the answer to Tracing.end: the 500 ms timer is set, or the catch
\* block resets the module state
StopResumed(id) ==
    /\ calls[id].action = "stop"
    /\ calls[id].pc = "sent"
    /\ IF calls[id].ok
       THEN /\ calls' = [calls EXCEPT ![id].pc = "timer"]
            /\ UNCHANGED <<isProfiling, profileSessionId, profileDataChunks>>
       ELSE /\ ResetProfiler
            /\ calls' = [calls EXCEPT ![id].pc = "done", ![id].reply = "StopFailed"]
    /\ UNCHANGED cdp
    /\ UNCHANGED <<cacheVars, serverVars>>

\* stop after the timer: the stored listeners are removed, the chunks are
\* concatenated, the path is made from the session id, writeFile is called
StopTimer(id) ==
    /\ calls[id].action = "stop"
    /\ calls[id].pc = "timer"
    /\ cdp' = IF cdp.stored
              THEN [cdp EXCEPT !.listeners = @ - 1, !.stored = FALSE]
              ELSE cdp
    /\ calls' = [calls EXCEPT ![id].pc = "write",
                              ![id].chunks = profileDataChunks,
                              ![id].sessionId = profileSessionId]
    /\ UNCHANGED <<isProfiling, profileSessionId, profileDataChunks>>
    /\ UNCHANGED <<cacheVars, serverVars>>

\* stop after writeFile: the module state is reset and the session id answered
StopWritten(id, ok) ==
    /\ calls[id].action = "stop"
    /\ calls[id].pc = "write"
    /\ ResetProfiler
    /\ calls' = [calls EXCEPT ![id].pc = "done",
                              ![id].reply = IF ok THEN "Stopped" ELSE "StopFailed",
                              ![id].sessionId = IF ok THEN profileSessionId ELSE 0]
    /\ UNCHANGED cdp
    /\ UNCHANGED <<cacheVars, serverVars>>

\* action "status"
StatusCall(id) ==
    /\ NextCallId(id)
    /\ calls' = [calls EXCEPT ![id] =
                   [NoCall EXCEPT !.action = "status", !.pc = "done",
                      !.reply = IF isProfiling THEN "Profiling" ELSE "Idle",
                      !.sessionId = profileSessionId,
                      !.chunks = profileDataChunks,
                      !.during = SessionActive]]
    /\ UNCHANGED <<isProfiling, profileSessionId, profileDataChunks, cdp>>
    /\ UNCHANGED <<cacheVars, serverVars>>

NextProfiler ==
    \/ \E id \in CallIds : StartCall(id)
    \/ \E id \in CallIds, ok \in BOOLEAN : StartGotSession(id, ok)
    \/ \E id \in CallIds : StartResumed(id)
    \/ DataCollected
    \/ \E id \in CallIds : StopCall(id)
    \/ \E id \in CallIds, ok \in BOOLEAN : StopGotSession(id, ok)
    \/ \E id \in CallIds : StopResumed(id)
    \/ \E id \in CallIds : StopTimer(id)
    \/ \E id \in CallIds, ok \in BOOLEAN : StopWritten(id, ok)
    \/ \E id \in CallIds : StatusCall(id)

SpecProfiler == Init /\ [][NextProfiler]_vars

----------------------------------------------------------------------------
(* The server's start and the dispatch of tool calls *)

\* names of __toolHandlers the model sends requests for
RegisteredTools == {"browser_snapshot", "browser_click"}

\* the names a client asks for: the registered ones and one that is not
ToolNames == RegisteredTools \cup {"browser_unknown"}

\* the client writes a tools/call request to the server's stdin; the operating
\* system keeps it until the process reads it
ClientSends(name) ==
    /\ Len(inbox) + Len(responses) < MaxRequests
    /\ inbox' = Append(inbox, [name |-> name, arrived |-> startPc])
    /\ UNCHANGED <<startPc, toolHandlers, responses>>
    /\ UNCHANGED <<cacheVars, profilerVars>>

\* start() up to its first await: server.connect(transport) puts the stdio
\* transport's listener on stdin
Connect ==
    /\ startPc = "new"
    /\ startPc' = "connected"
    /\ UNCHANGED <<toolHandlers, inbox, responses>>
    /\ UNCHANGED <<cacheVars, profilerVars>>

\* start() after the await of connect: registerAllTools assigns
\* __toolHandlers before its own first await
RegisterAllTools ==
    /\ startPc = "connected"
    /\ toolHandlers' = <<RegisteredTools>>
    /\ startPc' = "running"
    /\ UNCHANGED <<inbox, responses>>
    /\ UNCHANGED <<cacheVars, profilerVars>>

\* stdin has a listener that gives its data to the CallTool request handler
Listening == startPc # "new"

\* no continuation is waiting in the microtask queue: connect puts its
\* listener on stdin without waiting for input or output, so start() resumes
\* after its await in the same turn of the event loop, and a read of stdin is
\* a later turn
LoopIdle == startPc # "connected"

\* (this.server as any).__toolHandlers || {}
Handlers == IF toolHandlers = <<>> THEN {} ELSE toolHandlers[1]

\* the answer of the CallTool request handler to one request
Answer(request, ok) ==
    IF request.name \in Handlers
    THEN [name |-> request.name, arrived |-> request.arrived, by |-> "handler",
          isError |-> ~ok]
    ELSE [name |-> request.name, arrived |-> request.arrived, by |-> "default",
          isError |-> FALSE]

\* a read of stdin that is handled while start() waits between its awaits
Deliver_BetweenAwaits(ok) ==
    /\ Listening
    /\ inbox # <<>>
    /\ responses' = Append(responses, Answer(Head(inbox), ok))
    /\ inbox' = Tail(inbox)
    /\ UNCHANGED <<startPc, toolHandlers>>
    /\ UNCHANGED <<cacheVars, profilerVars>>

\* a read of stdin gives the oldest request to the CallTool request handler:
\* the named handler is awaited (ok: it returns; otherwise it throws and the
\* catch answers the error), and a name without handler gets the default text
Deliver(ok) ==
    /\ Listening
    /\ LoopIdle
    /\ inbox # <<>>
    /\ responses' = Append(responses, Answer(Head(inbox), ok))
    /\ inbox' = Tail(inbox)
    /\ UNCHANGED <<startPc, toolHandlers>>
    /\ UNCHANGED <<cacheVars, profilerVars>>

NextServer ==
    \/ \E name \in ToolNames : ClientSends(name)
    \/ Connect
    \/ RegisterAllTools
    \/ \E ok \in BOOLEAN : Deliver(ok)

SpecServer == Init /\ [][NextServer]_vars

----------------------------------------------------------------------------
(* Properties *)

\* the token format the documentation states: ^@?e\d+$
MatchesRefPattern(t) ==
    \E k \in {0, 1} :
        /\ Len(t) >= k + 2
        /\ k = 1 => t[1] = "@"
        /\ t[k + 1] = "e"
        /\ \A i \in (k + 2)..Len(t) : t[i] \in DigitChars

\* the bare key a well-formed token names
BareKey(t) == IF t[1] = "@" THEN Tail(t) ELSE t

\* digit strings: the counters around the table sizes, and leading zeros
DigitStrings ==
    {Digits(i) : i \in 0..(MaxRefs + 1)} \cup {<<"0", "1">>, <<"0", "0">>}

Range(s) == {s[i] : i \in 1..Len(s)}

\* C1: after a navigate or reload call has returned and before a new snapshot
\* is published, the cache table is empty: every ref of the earlier snapshot
\* resolves to RefNotFound with zero available refs listed.
C1_NavigationInvalidates ==
    navigated =>
        /\ GetAvailable = <<>>
        /\ \A i \in 1..MaxPage :
              LET r == ResolveRef(RefKey(i), GetRefMap)
              IN  r.kind = "RefNotFound" /\ r.listed = <<>>

\* C2: after replace(T1) followed by replace(T2), get(r) is T2's descriptor
\* for r when r is a key of T2 and not-found otherwise, for every ref r;
\* nothing that exists only in T1 is returned.
C2_ReplaceNotMerge ==
    gen.op = "updateRefs" =>
        \A i \in 1..(MaxPage + 1) :
            Get(RefKey(i)) = Prop(gen.table, RefKey(i))

C2_Witness ==
    /\ gen.op = "updateRefs"
    /\ version = 2
    /\ Len(gen.table) >= 1
    /\ Len(gen.prev) > Len(gen.table)
    /\ gen.prev[1].data # gen.table[1].data
    /\ Get(RefKey(1)) = <<gen.table[1].data>>

\* C3: a step that is invalidate() leaves listAvailable() empty and get(r)
\* not-found for every ref r that was a key before the step.
C3_InvalidateClears ==
    [][op' = "invalidate" =>
          /\ GetAvailable' = <<>>
          /\ \A i \in 1..Len(refs) : Get(refs[i].key)' = Null]_vars

C3_Witness ==
    /\ op = "invalidate"
    /\ Len(gen.prev) > 0
    /\ GetAvailable = <<>>

\* C4: a resolve made by a tool call has the outcome that resolving against
\* the complete table of the most recently completed publish (or the empty
\* table after an invalidation) has, also while a snapshot build is half way.
C4_ResolveSeesCompleteTable ==
    [][op' = "click" => reply'.res = ResolveRef(reply'.ref, CurrentTable)]_vars

C4_Witness ==
    /\ op = "click"
    /\ reply.partial
    /\ pc = "building"
    /\ reply.res.kind = "Locator"
    /\ building # refs

\* C5: every step of a snapshot build before its publication, its failure
\* included, leaves the cache's table and version as they were.
C5_FailedBuildLeavesCache ==
    [][op' \in {"snapshotStart", "buildStep", "snapshotFail"} =>
          (refs' = refs /\ version' = version)]_vars

C5_Witness ==
    /\ op = "snapshotFail"
    /\ reply.error = "DriverUnavailable"
    /\ reply.nrefs > 0
    /\ Len(refs) > 0
    /\ version > 0

\* C6: the version is 0 at creation; a publish raises it by exactly one, an
\* invalidate sets it to 0, and no other step changes it.
C6_VersionIsGeneration ==
    /\ version = 0
    /\ [][version' = (IF op' = "publish" THEN version + 1
                      ELSE IF op' = "invalidate" THEN 0
                      ELSE version)]_vars

C6_Witness ==
    /\ op = "publish"
    /\ version = 2
    /\ GetVersion = 2

\* C7: every token that does not match ^@?e\d+$ is rejected with
\* InvalidRefFormat without a table lookup, whatever the cache holds.
C7_MalformedRejected ==
    \A t \in Tokens :
        ~MatchesRefPattern(t) =>
            LET r == ResolveRef(t, GetRefMap)
            IN  r.kind = "InvalidRefFormat" /\ ~r.lookedUp

C7_Witness ==
    /\ reply.tool = "resolve"
    /\ reply.ref = <<"e">>
    /\ reply.res.kind = "InvalidRefFormat"
    /\ Len(refs) > 0

\* C8: for every digit string N, resolve("eN") and resolve("@eN") both fail
\* with RefNotFound or both give the locator of the descriptor under key eN.
C8_AtSignCosmetic ==
    \A d \in DigitStrings :
        LET bare == ResolveRef(<<"e">> \o d, GetRefMap)
            at == ResolveRef(<<"@", "e">> \o d, GetRefMap)
        IN  /\ at.kind = bare.kind
            /\ at.locator = bare.locator
            /\ IF HasKey(refs, <<"e">> \o d)
               THEN /\ at.kind = "Locator"
                    /\ at.locator = LocatorFromRef(Prop(refs, <<"e">> \o d)[1])
               ELSE at.kind = "RefNotFound"

C8_Witness ==
    /\ reply.tool = "resolve"
    /\ reply.ref = <<"@", "e", "1", "2">>
    /\ reply.res.kind = "Locator"

\* C9: a well-formed ref that is not a key fails with RefNotFound, and the
\* message lists all available refs when there are at most 10, otherwise the
\* first 10 of its listing (10 distinct available refs, none of the omitted
\* ones ordered before a listed one) followed by the ellipsis.
C9_NotFoundListsAvailable ==
    reply.tool = "resolve" /\ MatchesRefPattern(reply.ref)
        /\ ~HasKey(refs, BareKey(reply.ref)) =>
        LET listed == reply.res.listed
            avail == GetAvailable
        IN  /\ reply.res.kind = "RefNotFound"
            /\ Range(listed) \subseteq Range(avail)
            /\ Cardinality(Range(listed)) = Len(listed)
            /\ IF Len(avail) <= 10
               THEN Range(listed) = Range(avail) /\ ~reply.res.ellipsis
               ELSE /\ Len(listed) = 10
                    /\ reply.res.ellipsis
                    /\ \A a \in Range(avail) \ Range(listed) :
                          \A l \in Range(listed) : StrLess(l, a)

C9_Witness ==
    /\ reply.tool = "resolve"
    /\ reply.res.kind = "RefNotFound"
    /\ Len(refs) > 10
    /\ Len(reply.res.listed) = 10
    /\ reply.res.ellipsis

\* C10: listAvailable() is e1, e2, ..., eN in insertion order, and the refs
\* a RefNotFound message lists are the first ones in that order.
C10_ListedInInsertionOrder ==
    /\ GetAvailable = [i \in 1..Len(refs) |-> RefKey(i)]
    /\ reply.res.kind = "RefNotFound" =>
          reply.res.listed = Slice(GetAvailable, 10)

\* the position in table of the entry a well-formed token names
RefPos(table, t) == CHOOSE i \in 1..Len(table) : table[i].key = BareKey(t)

\* the last step resolved a token to a role locator
ResolvedByRole ==
    /\ op = "resolveDom"
    /\ reply.res.kind = "Locator"
    /\ reply.res.locator.by = "role"

\* C11: when the descriptor has a name, every element a resolve selects has
\* the descriptor's role and an accessible name equal to the descriptor's
\* name; an element whose name only contains it is not selected.
C11_NameMatchIsExact ==
    (ResolvedByRole /\ reply.res.locator.hasText # <<>>) =>
        \A k \in Range(hits) :
            /\ dom[k].role = reply.res.locator.role
            /\ dom[k].name = reply.res.locator.hasText[1]

\* C12: the refs of elements that share role and name carry nth = 0, 1, ...
\* in DOM order, and on the unchanged page resolving such a ref selects
\* exactly the element the snapshot gave that ref to.
C12_NthSelectsTwin ==
    /\ op \in {"init", "snapshotDom"} =>
          \A i \in 1..Len(refs) :
              LET same == {j \in 1..Len(refs) :
                              /\ refs[j].data.role = refs[i].data.role
                              /\ refs[j].data.name = refs[i].data.name
                              /\ refs[j].data.role \notin {"clickable", "focusable"}}
              IN  (i \in same /\ Cardinality(same) > 1) =>
                      refs[i].data.nth = <<Cardinality({j \in same : j < i})>>
    /\ (ResolvedByRole /\ reply.res.locator.nth # <<>> /\ dom = shot.dom) =>
          hits = <<SurfacedSeq(dom, shot.cursor)[RefPos(refs, reply.ref)]>>

\* C13: a descriptor with role "clickable" or "focusable" resolves to a query
\* for its stored selector, without role, name or nth; every other descriptor
\* resolves to a role query that does not carry the selector.
C13_SentinelBySelector ==
    (op = "resolveDom" /\ reply.res.kind = "Locator") =>
        LET d == refs[RefPos(refs, reply.ref)].data
            l == reply.res.locator
        IN  IF d.role \in {"clickable", "focusable"}
            THEN /\ l.by = "selector"
                 /\ l.selector = d.selector
                 /\ l.role = "" /\ l.hasText = <<>> /\ l.nth = <<>>
                 /\ \A k \in 1..Len(dom) :
                        k \in Range(hits) <=> dom[k].css = d.selector
            ELSE /\ l.by = "role"
                 /\ l.role = d.role
                 /\ l.selector = <<>>
                 /\ \A k \in Range(hits) : dom[k].role = d.role

C13_Witness ==
    /\ op = "resolveDom"
    /\ reply.res.kind = "Locator"
    /\ refs[RefPos(refs, reply.ref)].data.role = "focusable"
    /\ reply.res.locator.by = "selector"
    /\ Len(hits) = 1
    /\ dom[hits[1]] = TabSpan

\* C14: on the unchanged page, resolving a ref whose descriptor has a role
\* and a name and no nth selects one element, and that element has exactly
\* the descriptor's role and name.
C14_RoundTrip ==
    (/\ ResolvedByRole
     /\ reply.res.locator.hasText # <<>>
     /\ reply.res.locator.nth = <<>>
     /\ dom = shot.dom) =>
        /\ Len(hits) = 1
        /\ dom[hits[1]].role = refs[RefPos(refs, reply.ref)].data.role
        /\ <<dom[hits[1]].name>> = refs[RefPos(refs, reply.ref)].data.name

\* the last step resolved a token whose ref is in the table while the page
\* has no element for the ref's descriptor
ResolvedWithoutMatch ==
    /\ op = "resolveDom"
    /\ MatchesRefPattern(reply.ref)
    /\ HasKey(refs, BareKey(reply.ref))
    /\ LocatorHits(LocatorFromRef(refs[RefPos(refs, reply.ref)].data), dom) = <<>>

\* C15 as stated: when the page has no match for the descriptor, resolve
\* fails with RefNotFound.
C15_ZeroMatchesIsRefNotFound ==
    ResolvedWithoutMatch => reply.res.kind = "RefNotFound"

\* C15 as the code has it: resolve does not ask the page. A ref that is in
\* the table resolves to its locator also when the page has no match for it,
\* and RefNotFound is produced exactly when the ref is not in the table.
C15_ZeroMatchesStillLocator ==
    /\ ResolvedWithoutMatch =>
          /\ reply.res.kind = "Locator"
          /\ ~reply.isError
          /\ reply.res.locator = LocatorFromRef(refs[RefPos(refs, reply.ref)].data)
    /\ (op = "resolveDom" /\ MatchesRefPattern(reply.ref)) =>
          (reply.res.kind = "RefNotFound" <=> ~HasKey(refs, BareKey(reply.ref)))

C15_Witness ==
    /\ ResolvedWithoutMatch
    /\ reply.res.kind = "Locator"
    /\ hits = <<>>
    /\ dom # shot.dom

\* C16: for every token and every table, resolve returns a locator or fails
\* with RefNotFound or InvalidRefFormat; it fails in no other way.
C16_OnlyTwoFailures ==
    /\ \A t \in Tokens :
          LET r == ResolveRef(t, GetRefMap)
          IN  /\ r.kind \in {"Locator", "RefNotFound", "InvalidRefFormat"}
              /\ r.kind = "Locator" <=> r.locator # NoLocator
    /\ reply.tool = "resolve" =>
          /\ reply.res.kind \in {"Locator", "RefNotFound", "InvalidRefFormat"}
          /\ reply.isError <=> reply.res.kind \in {"RefNotFound", "InvalidRefFormat"}
          /\ reply.isError => reply.error = reply.res.kind

C16_Witness ==
    /\ reply.tool = "resolve"
    /\ reply.ref = <<>>
    /\ reply.res.kind = "InvalidRefFormat"
    /\ Len(refs) > 0

\* C17: a step that is a resolve, successful or not, leaves the cache's
\* table and version and the document as they were and acts on no element.
C17_ResolveReadOnly ==
    [][op' = "resolveDom" =>
          /\ refs' = refs
          /\ version' = version
          /\ dom' = dom
          /\ acted' = <<>>]_vars

C17_Witness ==
    /\ op = "resolveDom"
    /\ reply.res.kind = "RefNotFound"
    /\ Len(refs) > 0
    /\ refs = gen.table
    /\ version = 2

\* C20: the table a completed snapshot publishes has exactly the keys
\* e1, ..., eN for its N entries: no gap, no duplicate, starting at e1 on
\* every call.
C20_Density ==
    op \in {"init", "snapshotDom"} =>
        /\ {refs[i].key : i \in 1..Len(refs)} = {RefKey(i) : i \in 1..Len(refs)}
        /\ Cardinality({refs[i].key : i \in 1..Len(refs)}) = Len(refs)

C20_Witness ==
    /\ op = "snapshotDom"
    /\ version = 2
    /\ Len(gen.prev) > 0
    /\ Len(dom) = 3
    /\ dom[2].role = ""
    /\ ~shot.cursor
    /\ Len(refs) = 2
    /\ refs[2].key = RefKey(2)

\* C18 as stated: a call of a tool other than the snapshot tool leaves the
\* cache's table and version as they were.
C18_OnlySnapshotWrites ==
    [][op' \in {"clickDom", "wait", "screenshot", "diffSnapshot",
                "diffScreenshot", "diffUrl"} =>
          (refs' = refs /\ version' = version)]_vars

\* C18 as the code has it: besides the snapshot tool and invalidate, the diff
\* tool with type "snapshot" or "url" publishes the table of every snapshot
\* it takes; click, wait, screenshot and the screenshot diff leave the
\* cache's table and version as they were.
C18_SnapshotAndDiffWrite ==
    [][/\ op' \in {"clickDom", "wait", "screenshot", "diffScreenshot"} =>
             (refs' = refs /\ version' = version)
       /\ (op' \in {"diffSnapshot", "diffUrl"} /\ ~reply'.isError) =>
             /\ refs' = DomTable(dom', FALSE)
             /\ version' > version
       /\ (op' = "diffSnapshot" /\ reply'.isError) =>
             (refs' = refs /\ version' = version)]_vars

C18_Witness ==
    /\ op = "diffSnapshot"
    /\ ~reply.isError
    /\ refs = DomTable(dom, FALSE)
    /\ gen.prev # refs
    /\ Len(gen.prev) > 0
    /\ version = 2

\* C19: from the publication of a table until the next replace or
\* invalidate, the cache's table is the published one: same keys, same
\* selector, role, name and nth for every key, whatever callers do with the
\* object they passed or with a map they got from the cache.
C19_DescriptorsImmutable ==
    gen.op = "updateRefs" => refs = gen.table

C22_InteractiveFilter ==
    (op = "snapshotDom" /\ shot.interactive) =>
        LET kept == {j \in 1..Len(dom) : dom[j].role \in InteractiveRoles}
            semantic == {k \in 1..Len(refs) :
                            refs[k].data.role \notin {"clickable", "focusable"}}
        IN  /\ \A k \in semantic : refs[k].data.role \in InteractiveRoles
            /\ Cardinality(semantic) = Cardinality(kept)
            /\ ~shot.cursor => Len(refs) = Cardinality(kept)
            /\ Len(refs) <= Len(DomTableOpts(dom, shot.cursor, FALSE))

C22_Witness ==
    /\ op = "snapshotDom"
    /\ shot.interactive
    /\ ~shot.cursor
    /\ dom = <<HeadingGo, ButtonGo, LinkGo>>
    /\ Len(refs) = 2
    /\ refs[1].data.role = "button"
    /\ refs[2].data.role = "link"

\* C23 as stated: the reply of a successful snapshot call carries the cache
\* version of the table it published.
C23_ReplyCarriesVersion ==
    (op = "snapshotReturn" /\ ~reply.isError) => "version" \in reply.fields

\* C23 as the code has it: the reply of a successful snapshot call carries
\* tree, refs, url, title and refCount, the number of refs in the cache when
\* the call returns; the cache version is not part of it.
C23_ReplyCarriesRefCount ==
    (op = "snapshotReturn" /\ ~reply.isError) =>
        /\ reply.fields = {"tree", "refs", "url", "title", "refCount"}
        /\ reply.refCount = Len(refs)

C23_Witness ==
    /\ op = "snapshotReturn"
    /\ ~reply.isError
    /\ version = 2
    /\ reply.refCount = 2
    /\ "refCount" \in reply.fields

\* the four error kinds of the snapshot and resolve paths
FourErrors == {"ScopeNotFound", "DriverUnavailable", "InvalidRefFormat", "RefNotFound"}

\* C25: a snapshot or click call that fails reports one of the four error
\* kinds as its reply and leaves the cache's table and version and the page
\* as they were; a failed snapshot leaves the handler idle with nothing of
\* its build kept, a failed click leaves a build in flight as it was.
C25_ErrorsLeaveState ==
    [][(op' \in {"snapshotFail", "click"} /\ reply'.isError) =>
          /\ reply'.error \in FourErrors
          /\ UNCHANGED <<refs, version, page, gen, navigated>>
          /\ op' = "click" => UNCHANGED <<pc, snapPage, building>>
          /\ op' = "snapshotFail" =>
                (pc' = "idle" /\ snapPage' = BlankPage /\ building' = EmptyMap)]_vars

C25_Witness ==
    /\ op = "snapshotFail"
    /\ reply.isError
    /\ reply.error = "ScopeNotFound"
    /\ Len(refs) > 0
    /\ refs = gen.table
    /\ page.n > 0

\* C28: the refCount a snapshot call returns is the number of entries of the
\* refs table the same call returns, whatever completed while the call was
\* waiting for the page's title.
C28_RefCountMatchesRefs ==
    (op = "snapshotReturn" /\ ~reply.isError) => reply.refCount = reply.nrefs


\* whether a token is a well-formed ref that the current table does not hold
AbsentRef(t) == MatchesRefPattern(t) /\ ~HasKey(refs, BareKey(t))

\* C24: an interaction tool called with a well-formed ref that the current
\* table does not hold answers the not-found error and has performed no action
\* on the page; a drag has performed no action when either of its two refs is
\* absent, and answers not-found when both are well-formed.
C24_AbsentRefNoAction ==
    /\ (op \in {"clickDom", "interact"} /\ AbsentRef(reply.ref)) =>
           /\ reply.isError
           /\ reply.error = "RefNotFound"
           /\ acted = <<>>
           /\ hits = <<>>
    /\ (op = "drag" /\ (AbsentRef(reply.ref) \/ AbsentRef(reply.toRef))) =>
           /\ reply.isError
           /\ acted = <<>>
           /\ hits = <<>>
           /\ (MatchesRefPattern(reply.ref) /\ MatchesRefPattern(reply.toRef)) =>
                  reply.error = "RefNotFound"

\* a drag from a ref of the table to a ref the table does not hold
C24_Witness ==
    /\ op = "drag"
    /\ MatchesRefPattern(reply.ref)
    /\ HasKey(refs, BareKey(reply.ref))
    /\ AbsentRef(reply.toRef)
    /\ reply.error = "RefNotFound"
    /\ acted = <<>>

\* C27: wait in ref mode, the element screenshot and highlight by ref treat
\* their ref as resolve does: a token resolve rejects as malformed or as not
\* found is rejected without an action on the page, and a ref resolve accepts
\* targets the elements resolve's locator matches.
C27_ToolsTreatRefAsResolve ==
    (op \in {"wait", "screenshot", "highlight"} /\ reply.ref # <<>>) =>
        LET r == ResolveRef(reply.ref, refs)
        IN  /\ r.kind # "Locator" => (reply.isError /\ acted = <<>>)
            /\ r.kind = "Locator" => hits = LocatorHits(r.locator, dom)

\* C29: the ref browser_find reports after it has acted on an element is not
\* a key of the current table that describes a different element: when the
\* table holds the reported ref, its descriptor's locator matches the element
\* the find acted on.
C29_ReportedRefNamesActedElement ==
    (op = "find" /\ ~reply.isError /\ HasKey(refs, reply.ref)) =>
        LocatorHits(LocatorFromRef(Prop(refs, reply.ref)[1]), dom) = hits

\* C26: a profiler start request issued while a profiling session is active
\* is answered "already active" and no step of it changes the session id or
\* the collected chunks.
C26_StartWhileActiveRejected ==
    [][\A id \in CallIds :
          (calls'[id].action = "start" /\ calls'[id].during
             /\ calls'[id] # calls[id]) =>
              /\ profileSessionId' = profileSessionId
              /\ profileDataChunks' = profileDataChunks
              /\ calls'[id].pc = "done" => calls'[id].reply = "AlreadyActive"]_vars

\* C30: every answer to a tool call whose name is a registered tool comes from
\* that tool's handler, also for a request that arrived before the tools were
\* registered; the default "executed" text answers only other names.
C30_RegisteredToolsDispatched ==
    \A i \in 1..Len(responses) :
        responses[i].name \in RegisteredTools => responses[i].by = "handler"

\* a request for a registered tool that arrived between connect and the
\* registration has been answered by its handler
C30_Witness ==
    \E i \in 1..Len(responses) :
        /\ responses[i].name \in RegisteredTools
        /\ responses[i].arrived = "connected"
        /\ responses[i].by = "handler"

============================================================================
